---- MODULE Spec2Model ----
(***************************************************************************)
(* CashFlow-Guard: the late-payment risk model (ml/train.py), invoice      *)
(* scoring with its rule-based fallback (ml/predict.py) and the            *)
(* recommendation engine (recommendations/engine.py).                      *)
(*                                                                         *)
(* SpecModel  : life cycle of one LatePaymentModel and of the model file   *)
(*              (construct, train, predict, save step by step, load) and   *)
(*              score_invoices on small invoice batches.                   *)
(* SpecRec    : RecommendationEngine._determine_action and                 *)
(*              _calculate_priority on one invoice row.                    *)
(* SpecTable  : recommend_actions on an invoice table, called twice while  *)
(*              the wall clock runs.                                       *)
(* SpecCadence: CollectionsScheduler.generate_schedule on one invoice.     *)
(* SpecSched  : life cycle of a schedule frame (reschedule_action,         *)
(*              mark_completed, cancel_future_actions).                    *)
(* SpecFeat   : engineer_features and create_target_variable on small      *)
(*              invoice, customer and payment tables.                      *)
(* SpecAging  : utils.dates.get_aging_bucket on one day count.             *)
(***************************************************************************)
EXTENDS Integers, Sequences, FiniteSets, TLC

VARIABLES
    m,            \* the LatePaymentModel instance held by the caller
    dirExists,    \* filepath.parent exists
    file,         \* the model path: [exists, chunks written so far]
    savePc,       \* position inside save(): idle / made_dir / writing
    saved,        \* <<self>> of the save() running or last completed, else <<>>
    lastOp,       \* name of the last finished call
    lastErr,      \* exception class the last call raised ("none" if it returned)
    lastMsg,      \* which raise statement produced lastErr
    lastResult,   \* value the last call returned
    invoices_df,  \* the invoice batch handed to score_invoices
    customers_df, \* the customers table handed to score_invoices
    call,         \* arguments of the last train / score_invoices call
    row,          \* the invoice row handed to the recommendation engine
    rec,          \* <<recommendation computed for row>>, <<>> before
    scheduler,    \* the CollectionsScheduler: business_days_only, holidays
    schedule_df,  \* the schedule frame, one row per scheduled attempt
    sched_call,   \* the last scheduler call and its arguments
    clock,        \* datetime.now(), in whole days
    rec_in,       \* the tables handed to recommend_actions
    rec_outs,     \* the tables recommend_actions returned so far
    feat_in,      \* the tables handed to the feature engine
    feat_out      \* <<frame the feature engine returned>>, <<>> before

vars == <<m, dirExists, file, savePc, saved,
          lastOp, lastErr, lastMsg, lastResult,
          invoices_df, customers_df, call, row, rec,
          scheduler, schedule_df, sched_call,
          clock, rec_in, rec_outs, feat_in, feat_out>>

modelVars == <<m, dirExists, file, savePc, saved,
               lastOp, lastErr, lastMsg, lastResult>>

scoreVars == <<invoices_df, customers_df, call>>

recVars == <<row, rec>>

schedVars == <<scheduler, schedule_df, sched_call>>

tableVars == <<clock, rec_in, rec_outs>>

featVars == <<feat_in, feat_out>>

None == "None"

-----------------------------------------------------------------------------
(* Feature engine contract (ml/features.py)                                *)

get_feature_columns ==
    << "days_until_due", "days_since_issue", "payment_term_days",
       "issue_month", "issue_quarter", "issue_day_of_week", "issue_is_weekend",
       "due_month", "due_quarter", "due_day_of_week", "due_is_weekend",
       "invoice_amount_log", "invoice_amount_sqrt", "credit_limit_log",
       "credit_utilization",
       "customer_invoice_count", "customer_avg_days_late", "customer_late_rate",
       "customer_ar_concentration",
       "invoice_type_recurring", "invoice_type_milestone", "channel_online",
       "amount_x_days_until_due", "amount_x_late_rate",
       "utilization_x_late_rate" >>

Range(s) == { s[i] : i \in 1..Len(s) }

\* Columns of the frame engineer_features returns: the input invoice columns,
\* the 25 model features and the helper columns it also leaves in the frame.
EngineeredColumns ==
    Range(get_feature_columns) \cup
    { "invoice_id", "customer_id", "issue_date", "due_date", "invoice_amount",
      "status", "amount_bucket", "payment_terms_days", "credit_limit",
      "customer_avg_payment_amount", "customer_total_ar" }

\* engineer_features(invoices, customers, payments, as_of): pd.Timestamp(as_of)
\* accepts a datetime (or None, replaced by now) and raises TypeError on a
\* DataFrame.
engineer_features(as_of) ==
    IF as_of = "DataFrame" THEN [err |-> "TypeError", cols |-> {}]
    ELSE [err |-> "none", cols |-> EngineeredColumns]

-----------------------------------------------------------------------------
(* LatePaymentModel (ml/train.py)                                          *)

MinTrainingRows == 50

\* Constructor arguments (model_type, random_seed, **model_params) tried.
ModelConfigs ==
    { <<"gradient_boost", 42, <<>> >>,
      <<"logistic", 7, <<>> >>,
      <<"gradient_boost", 7, <<"n_estimators", 50>> >> }

\* Training sets: number of invoice rows, how many of them have a payment,
\* how many have status "open", payments beyond the first of an invoice,
\* whether both classes occur, and the fitted state (fit) a scaler or
\* estimator fitted on the set ends in.
TrainingSets ==
    { [fit |-> 1, invoices |-> 60, paid |-> 60, open |-> 5, extra |-> 0, bothClasses |-> TRUE],
      [fit |-> 2, invoices |-> 50, paid |-> 50, open |-> 5, extra |-> 0, bothClasses |-> TRUE],
      [fit |-> 1, invoices |-> 49, paid |-> 49, open |-> 5, extra |-> 0, bothClasses |-> TRUE],
      [fit |-> 2, invoices |-> 49, paid |-> 49, open |-> 5, extra |-> 1, bothClasses |-> TRUE],
      [fit |-> 1, invoices |-> 60, paid |-> 10, open |-> 50, extra |-> 0, bothClasses |-> TRUE],
      [fit |-> 2, invoices |-> 60, paid |-> 60, open |-> 5, extra |-> 0, bothClasses |-> FALSE],
      [fit |-> 1, invoices |-> 60, paid |-> 60, open |-> 0, extra |-> 0, bothClasses |-> TRUE] }

\* An estimator / scaler is its class, its hyper-parameters and the data it
\* was fitted on (0 = not fitted).
Estimator(model_type, random_seed, model_params, fit) ==
    [cls |-> model_type, seed |-> random_seed, params |-> model_params,
     fit |-> fit]

StandardScaler(fit) == [cls |-> "StandardScaler", fit |-> fit]

\* __init__ followed by _initialize_model.
NewModel(model_type, random_seed, model_params) ==
    [model_type |-> model_type,
     random_seed |-> random_seed,
     model_params |-> model_params,
     model |-> Estimator(model_type, random_seed, model_params, 0),
     scaler |-> StandardScaler(0),
     feature_columns |-> get_feature_columns,
     feature_importances_ |-> <<>>,
     is_trained |-> FALSE]

\* create_target_variable: a left merge of invoices with payments, one row
\* per (invoice, payment) pair and one per invoice without payment; is_late
\* is (days_late > threshold).astype(int), 0 or 1 on every row.
TargetRows(ds) == ds.invoices + ds.extra

\* train(): df[df["is_late"].notna()] -- is_late is never NaN, every row stays.
LabeledRowsInCode(ds) == TargetRows(ds)

\* Rows that carry a recorded payment.
RowsWithPayment(ds) == ds.paid + ds.extra

Returned(op, result) ==
    /\ lastOp' = op
    /\ lastErr' = "none"
    /\ lastMsg' = "none"
    /\ lastResult' = result

Raised(op, err, msg) ==
    /\ lastOp' = op
    /\ lastErr' = err
    /\ lastMsg' = msg
    /\ lastResult' = [kind |-> "none"]

\* The sample counts of the metrics train() returns: the rows kept are split
\* at int(len * (1 - test_size)) with test_size = 0.2.
TrainMetrics(rows) ==
    [kind |-> "metrics",
     train_samples |-> (4 * rows) \div 5,
     test_samples |-> rows - (4 * rows) \div 5]

\* LatePaymentModel(model_type, random_seed, **model_params)
Construct ==
    /\ savePc = "idle"
    /\ \E c \in ModelConfigs : m' = NewModel(c[1], c[2], c[3])
    /\ Returned("init", [kind |-> "none"])
    /\ UNCHANGED <<dirExists, file, savePc, saved>>
    /\ UNCHANGED <<scoreVars, recVars, schedVars, tableVars, featVars>>

\* train(): too few rows raises before anything is touched; so does
\* engineer_features when no row has status "open" (FeatureFrame); a fit on a
\* single class raises in self.model.fit after the scaler was fitted;
\* otherwise the scaler and the estimator are fitted and is_trained is set.
Train ==
    /\ savePc = "idle"
    /\ \E ds \in TrainingSets :
        /\ call' = ds
        /\ IF LabeledRowsInCode(ds) < MinTrainingRows
           THEN /\ Raised("train", "ValueError", "Insufficient training data")
                /\ UNCHANGED m
           ELSE IF ds.open = 0
           THEN /\ Raised("train", "AttributeError", "int has no fillna")
                /\ UNCHANGED m
           ELSE IF ~ds.bothClasses
           THEN /\ Raised("train", "ValueError", "estimator needs two classes")
                /\ m' = [m EXCEPT !.scaler = StandardScaler(ds.fit)]
           ELSE /\ Returned("train", TrainMetrics(LabeledRowsInCode(ds)))
                /\ m' = [m EXCEPT
                           !.scaler = StandardScaler(ds.fit),
                           !.model = Estimator(m.model_type, m.random_seed,
                                               m.model_params, ds.fit),
                           !.feature_importances_ =
                               IF m.model_type = "gradient_boost"
                               THEN <<"importances", ds.fit>> ELSE <<>>,
                           !.is_trained = TRUE]
    /\ UNCHANGED <<dirExists, file, savePc, saved>>
    /\ UNCHANGED <<invoices_df, customers_df, recVars>>
    /\ UNCHANGED <<schedVars, tableVars, featVars>>

\* predict_proba without its is_trained guard.
predict_proba_NoGuard(mm) ==
    IF ~(Range(mm.feature_columns) \subseteq engineer_features(None).cols)
    THEN [err |-> "KeyError", msg |-> "column not in frame",
          value |-> [kind |-> "none"]]
    ELSE [err |-> "none", msg |-> "none",
          value |-> [kind |-> "probas", columns |-> mm.feature_columns,
                     scaler |-> mm.scaler, model |-> mm.model]]

\* predict_proba(invoices, customers, payments) on instance mm.
predict_proba(mm) ==
    IF ~mm.is_trained
    THEN [err |-> "ValueError", msg |-> "Model not trained", value |-> [kind |-> "none"]]
    ELSE IF ~(Range(mm.feature_columns) \subseteq engineer_features(None).cols)
    THEN [err |-> "KeyError", msg |-> "column not in frame", value |-> [kind |-> "none"]]
    ELSE [err |-> "none", msg |-> "none",
          value |-> [kind |-> "probas", columns |-> mm.feature_columns,
                     scaler |-> mm.scaler, model |-> mm.model]]

PredictProba ==
    /\ savePc = "idle"
    /\ LET r == predict_proba(m) IN
         IF r.err = "none" THEN Returned("predict_proba", r.value)
         ELSE Raised("predict_proba", r.err, r.msg)
    /\ UNCHANGED <<m, dirExists, file, savePc, saved>>
    /\ UNCHANGED <<scoreVars, recVars, schedVars, tableVars, featVars>>

\* predict_risk_scores: predict_proba, then (probas[:, 1] * 100).round(2).
PredictRiskScores ==
    /\ savePc = "idle"
    /\ LET r == predict_proba(m) IN
         IF r.err = "none"
         THEN Returned("predict_risk_scores",
                       [kind |-> "risk_scores", probas |-> r.value])
         ELSE Raised("predict_risk_scores", r.err, r.msg)
    /\ UNCHANGED <<m, dirExists, file, savePc, saved>>
    /\ UNCHANGED <<scoreVars, recVars, schedVars, tableVars, featVars>>

\* --- save / load -----------------------------------------------------------

ArtifactKeys ==
    << "model", "scaler", "feature_columns", "model_type", "random_seed",
       "model_params", "feature_importances" >>

\* The dict save() pickles.
ModelData(mm) ==
    [model |-> mm.model,
     scaler |-> mm.scaler,
     feature_columns |-> mm.feature_columns,
     model_type |-> mm.model_type,
     random_seed |-> mm.random_seed,
     model_params |-> mm.model_params,
     feature_importances |-> mm.feature_importances_]

\* pickle.dump: the dict's items in order, then the STOP opcode.  What is on
\* disk while the dump runs is a prefix of this stream.
PickleDump(d) ==
    [i \in 1..Len(ArtifactKeys) |-> <<ArtifactKeys[i], d[ArtifactKeys[i]]>>]
        \o << <<"STOP", 0>> >>

StreamLen == Len(ArtifactKeys) + 1

IsCompleteStream(chunks) == Len(chunks) = StreamLen

\* pickle.load of a complete stream.
PickleLoad(chunks) ==
    [model |-> chunks[1][2],
     scaler |-> chunks[2][2],
     feature_columns |-> chunks[3][2],
     model_type |-> chunks[4][2],
     random_seed |-> chunks[5][2],
     model_params |-> chunks[6][2],
     feature_importances |-> chunks[7][2]]

\* load() that forgets to restore the scaler.
RestoreInstance_NoScaler(d) ==
    [NewModel(d.model_type, d.random_seed, d.model_params) EXCEPT
        !.model = d.model,
        !.feature_columns = d.feature_columns,
        !.feature_importances_ = d.feature_importances,
        !.is_trained = TRUE]

\* load(): cls(model_type, random_seed, **model_params), then the four
\* restored attributes and is_trained = True.  No comparison with
\* get_feature_columns() is made.
RestoreInstance(d) ==
    [NewModel(d.model_type, d.random_seed, d.model_params) EXCEPT
        !.model = d.model,
        !.scaler = d.scaler,
        !.feature_columns = d.feature_columns,
        !.feature_importances_ = d.feature_importances,
        !.is_trained = TRUE]

load(f) ==
    IF ~f.exists
    THEN [err |-> "FileNotFoundError", msg |-> "open", inst |-> <<>>]
    ELSE IF ~IsCompleteStream(f.chunks)
    THEN [err |-> "EOFError", msg |-> "pickle.load: truncated stream",
          inst |-> <<>>]
    ELSE [err |-> "none", msg |-> "none",
          inst |-> <<RestoreInstance(PickleLoad(f.chunks))>>]

\* save(), first part: the is_trained guard and mkdir(parents, exist_ok);
\* model_data is built from self.
SaveBegin ==
    /\ savePc = "idle"
    /\ IF ~m.is_trained
       THEN /\ Raised("save", "ValueError", "Cannot save untrained model")
            /\ UNCHANGED <<dirExists, savePc, saved>>
       ELSE /\ dirExists' = TRUE
            /\ saved' = <<m>>
            /\ savePc' = "made_dir"
            /\ UNCHANGED <<lastOp, lastErr, lastMsg, lastResult>>
    /\ UNCHANGED <<m, file>>
    /\ UNCHANGED <<scoreVars, recVars, schedVars, tableVars, featVars>>

\* open(filepath, "wb") creates or truncates the target itself.
SaveOpen ==
    /\ savePc = "made_dir"
    /\ file' = [exists |-> TRUE, chunks |-> <<>>]
    /\ savePc' = "writing"
    /\ UNCHANGED <<m, dirExists, saved,
                   lastOp, lastErr, lastMsg, lastResult>>
    /\ UNCHANGED <<scoreVars, recVars, schedVars, tableVars, featVars>>

\* pickle.dump(model_data, f): the stream reaches the target piece by piece.
SaveWrite ==
    /\ savePc = "writing"
    /\ ~IsCompleteStream(file.chunks)
    /\ file' = [file EXCEPT !.chunks =
                   Append(@, PickleDump(ModelData(saved[1]))[Len(@) + 1])]
    /\ UNCHANGED <<m, dirExists, savePc, saved,
                   lastOp, lastErr, lastMsg, lastResult>>
    /\ UNCHANGED <<scoreVars, recVars, schedVars, tableVars, featVars>>

\* end of the with block and return.
SaveClose ==
    /\ savePc = "writing"
    /\ IsCompleteStream(file.chunks)
    /\ savePc' = "idle"
    /\ Returned("save", [kind |-> "none"])
    /\ UNCHANGED <<m, dirExists, file, saved>>
    /\ UNCHANGED <<scoreVars, recVars, schedVars, tableVars, featVars>>

\* save() is cut short (signal, full disk, power loss) anywhere after the
\* guard; the target keeps whatever it holds at that moment.
SaveInterrupt ==
    /\ savePc # "idle"
    /\ savePc' = "idle"
    /\ saved' = <<>>
    /\ Raised("save", "Interrupted", "save interrupted")
    /\ UNCHANGED <<m, dirExists, file>>
    /\ UNCHANGED <<scoreVars, recVars, schedVars, tableVars, featVars>>

\* model = LatePaymentModel.load(filepath): the caller goes on with the
\* loaded instance.
Load ==
    /\ savePc = "idle"
    /\ LET r == load(file) IN
         IF r.err = "none"
         THEN /\ Returned("load", [kind |-> "model"])
              /\ m' = r.inst[1]
         ELSE /\ Raised("load", r.err, r.msg)
              /\ UNCHANGED m
    /\ UNCHANGED <<dirExists, file, savePc, saved>>
    /\ UNCHANGED <<scoreVars, recVars, schedVars, tableVars, featVars>>

\* Another process loads the path while save() is running here.
ReaderLoad ==
    /\ savePc # "idle"
    /\ LET r == load(file) IN
         IF r.err = "none"
         THEN Returned("reader_load", [kind |-> "model"])
         ELSE Raised("reader_load", r.err, r.msg)
    /\ UNCHANGED <<m, dirExists, file, savePc, saved>>
    /\ UNCHANGED <<scoreVars, recVars, schedVars, tableVars, featVars>>

\* A complete artifact written by some earlier run (fitted state 9), possibly
\* by a version of the code with another feature list.
LegacyColumnLists ==
    { get_feature_columns,
      \* two columns swapped
      <<get_feature_columns[2], get_feature_columns[1]>>
          \o SubSeq(get_feature_columns, 3, Len(get_feature_columns)),
      \* last column missing
      SubSeq(get_feature_columns, 1, Len(get_feature_columns) - 1),
      \* one more column, which engineer_features still leaves in its frame
      Append(get_feature_columns, "customer_avg_payment_amount"),
      \* one more column, which engineer_features does not produce
      Append(get_feature_columns, "days_overdue") }

LegacyModel(cols) ==
    [NewModel("gradient_boost", 42, <<>>) EXCEPT
        !.model = Estimator("gradient_boost", 42, <<>>, 9),
        !.scaler = StandardScaler(9),
        !.feature_columns = cols,
        !.feature_importances_ = <<"importances", 9>>,
        !.is_trained = TRUE]

AbsentFile == [exists |-> FALSE, chunks |-> <<>>]

CompleteFile(mm) == [exists |-> TRUE, chunks |-> PickleDump(ModelData(mm))]

InitIdle ==
    /\ savePc = "idle"
    /\ saved = <<>>
    /\ lastOp = "init"
    /\ lastErr = "none"
    /\ lastMsg = "none"
    /\ lastResult = [kind |-> "none"]
    /\ call = [op |-> "none"]

InitNoBatch ==
    /\ invoices_df = <<>>
    /\ customers_df = <<>>

InitNoRow ==
    /\ row = [due_days_ago |-> 0, risk_score |-> 0, invoice_amount |-> 500,
              prior_actions |-> 0]
    /\ rec = <<>>

InitNoSchedule ==
    /\ scheduler = [business_days_only |-> TRUE, holidays |-> {}]
    /\ schedule_df = <<>>
    /\ sched_call = [op |-> "none"]

InitNoTable ==
    /\ clock = 0
    /\ rec_in = [invoices_df |-> <<>>, customers_df |-> <<>>,
                 actions_df |-> [kind |-> "None"]]
    /\ rec_outs = <<>>

InitNoFeatures ==
    /\ feat_in = [op |-> "none"]
    /\ feat_out = <<>>

\* Nothing outside the model life cycle has been called.

InitModel ==
    /\ m = NewModel("gradient_boost", 42, <<>>)
    /\ file \in {AbsentFile} \cup { CompleteFile(LegacyModel(c)) :
                                        c \in LegacyColumnLists }
    /\ dirExists \in BOOLEAN
    /\ file.exists => dirExists
    /\ InitIdle
    /\ InitNoBatch
    /\ InitNoRow
    /\ InitNoSchedule
    /\ InitNoTable
    /\ InitNoFeatures

NextModel ==
    \/ Construct
    \/ Train
    \/ PredictProba
    \/ PredictRiskScores
    \/ SaveBegin
    \/ SaveOpen
    \/ SaveWrite
    \/ SaveClose
    \/ SaveInterrupt
    \/ Load
    \/ ReaderLoad

SpecModel == InitModel /\ [][NextModel]_vars

-----------------------------------------------------------------------------
(* score_invoices and the rule-based fallback (ml/predict.py)              *)

Max(a, b) == IF a >= b THEN a ELSE b
Min(a, b) == IF a <= b THEN a ELSE b

MaxInvoices == 2

\* Invoice rows: amounts and credit limits are in thousands; due_days_ago is
\* (now - due_date).days, negative for an invoice not yet due.  "paid" stands
\* for every status other than "open": the scoring code only tests
\* status == "open".
InvoiceStatuses == {"open", "paid"}
CustomerIds == {"C001", "C002"}
Amounts == {1, 4}
DueDaysAgo == {-15, 60, 120}

InvoiceRows ==
    [customer_id : CustomerIds, invoice_amount : Amounts,
     due_days_ago : DueDaysAgo, status : InvoiceStatuses]

\* Batches of at most MaxInvoices rows; a row's position is its invoice_id.
Batches == UNION { [1..n -> InvoiceRows] : n \in 0..MaxInvoices }

\* Customers tables (unique customer_id, every invoice's customer present).
CustomerTables ==
    { [C001 |-> [payment_terms_days |-> 30, credit_limit |-> 5],
       C002 |-> [payment_terms_days |-> 45, credit_limit |-> 10]],
      [C001 |-> [payment_terms_days |-> 30, credit_limit |-> 0],
       C002 |-> [payment_terms_days |-> 90, credit_limit |-> 10]] }

\* _categorize_risk with the high / very_high boundary one too low.
categorize_risk_Off(score) ==
    IF score >= 85 THEN "very_high"
    ELSE IF score >= 61 THEN "high"
    ELSE IF score >= 31 THEN "medium"
    ELSE "low"

_categorize_risk(score) ==
    IF score >= 86 THEN "very_high"
    ELSE IF score >= 61 THEN "high"
    ELSE IF score >= 31 THEN "medium"
    ELSE "low"

\* Series.round(0) / numpy rint of the fraction num / den (den > 0, num >= 0):
\* to the nearest integer, a tie to the even one.
RoundHalfEven(num, den) ==
    LET q == num \div den
        r == num % den
    IN IF 2 * r < den THEN q
       ELSE IF 2 * r > den THEN q + 1
       ELSE IF q % 2 = 0 THEN q ELSE q + 1

RECURSIVE InsertAsc(_, _)
InsertAsc(sorted, x) ==
    IF sorted = <<>> THEN <<x>>
    ELSE IF x < Head(sorted) THEN <<x>> \o sorted
    ELSE <<Head(sorted)>> \o InsertAsc(Tail(sorted), x)

RECURSIVE SortAsc(_)
SortAsc(xs) ==
    IF xs = <<>> THEN <<>>
    ELSE InsertAsc(SortAsc(SubSeq(xs, 1, Len(xs) - 1)), xs[Len(xs)])

\* 20 * Series.quantile(0.95) (linear interpolation at position 0.95 (n-1))
\* of a non-empty sequence of amounts.
Quantile95x20(amounts) ==
    LET sorted == SortAsc(amounts)
        n == Len(sorted)
        k == 19 * (n - 1)
        lo == (k \div 20) + 1
        f == k % 20
        hi == Min(lo + 1, n)
    IN sorted[lo] * (20 - f) + sorted[hi] * f

RECURSIVE SumAmounts(_, _)
\* df.groupby("customer_id")["invoice_amount"].sum() for customer c, over
\* every row of the frame.
SumAmounts(inv, c) ==
    IF inv = <<>> THEN 0
    ELSE (IF Head(inv).customer_id = c THEN Head(inv).invoice_amount ELSE 0)
         + SumAmounts(Tail(inv), c)

days_overdue_calc_DueMinusNow(due_days_ago) == Max(0, -due_days_ago)

\* (now - due_date).dt.days.fillna(0).clip(lower=0)
days_overdue_calc(due_days_ago) == Max(0, due_days_ago)

\* risk_score of row i of the batch: the four component scores as exact
\* fractions over 9, Qd, 3 and Ud, weighted 0.4 / 0.2 / 0.2 / 0.2 and rounded.
FallbackRiskScore(inv, cust, i) ==
    LET r == inv[i]
        On == Min(900, 10 * days_overdue_calc(r.due_days_ago))
        Qn == Quantile95x20([j \in 1..Len(inv) |-> inv[j].invoice_amount])
        Qd == IF Qn > 0 THEN Qn ELSE 1
        An == IF Qn > 0 THEN Max(0, Min(100 * Qn, 2000 * r.invoice_amount))
              ELSE 0
        c == cust[r.customer_id]
        Tn == Max(0, Min(300, 5 * c.payment_terms_days))
        total_outstanding == SumAmounts(inv, r.customer_id)
        Ud == IF c.credit_limit > 0 THEN c.credit_limit ELSE 1
        Un == IF c.credit_limit > 0
              THEN Min(100 * c.credit_limit, 100 * total_outstanding)
              ELSE 100
    IN RoundHalfEven(2 * On * Qd * Ud + 9 * An * Ud + 3 * Tn * Qd * Ud
                       + 9 * Un * Qd,
                     45 * Qd * Ud)

ScoredRow(r, i, score) ==
    [invoice_id |-> i, customer_id |-> r.customer_id,
     invoice_amount |-> r.invoice_amount, status |-> r.status,
     risk_score |-> score, risk_category |-> _categorize_risk(score)]

RECURSIVE InsertDesc(_, _)
InsertDesc(sorted, x) ==
    IF sorted = <<>> THEN <<x>>
    ELSE IF x.risk_score > Head(sorted).risk_score THEN <<x>> \o sorted
    ELSE <<Head(sorted)>> \o InsertDesc(Tail(sorted), x)

RECURSIVE SortByRiskDesc(_)
\* sort_values("risk_score", ascending=False); rows of equal score keep
\* their order (numpy sorts batches this small by insertion).
SortByRiskDesc(rows) ==
    IF rows = <<>> THEN <<>>
    ELSE InsertDesc(SortByRiskDesc(SubSeq(rows, 1, Len(rows) - 1)),
                    rows[Len(rows)])

IsOpen_AnyStatus(r) == TRUE

\* df[df["status"] == "open"]
IsOpen(r) == r.status = "open"

\* _fallback_risk_scoring: every row is scored, then the open ones are kept
\* and sorted.
_fallback_risk_scoring(inv, cust) ==
    LET all == [i \in 1..Len(inv) |->
                   ScoredRow(inv[i], i, FallbackRiskScore(inv, cust, i))]
    IN SortByRiskDesc(SelectSeq(all, IsOpen))

\* Stand-in for the fitted estimator's late-payment probability of a row, in
\* thousandths.
EstimatorProbaPermille(mm, r) ==
    (r.invoice_amount * 131 + Max(0, r.due_days_ago) * 7
        + mm.model.fit * 53) % 1001

\* model.predict_proba(features_df): one positional argument, while
\* predict_proba requires invoices_df and customers_df.
predict_proba_call(mm, positional) ==
    IF positional < 2
    THEN [err |-> "TypeError", msg |-> "predict_proba: missing customers_df",
          value |-> [kind |-> "none"]]
    ELSE predict_proba(mm)

\* score_invoices that takes the fallback only when no path is given.
UseFallback_PathNoneOnly(modelArg, pathArg, f) ==
    modelArg = None /\ pathArg = None

\* if model is None: if model_path is None or not model_path.exists()
UseFallback(modelArg, pathArg, f) ==
    modelArg = None /\ (pathArg = None \/ ~f.exists)

Ok(value) == [err |-> "none", msg |-> "none", value |-> value]
Err(err, msg) == [err |-> err, msg |-> msg, value |-> [kind |-> "none"]]

score_invoices(inv, cust, modelArg, pathArg) ==
    IF UseFallback(modelArg, pathArg, file)
    THEN Ok([kind |-> "fallback", rows |-> _fallback_risk_scoring(inv, cust)])
    ELSE
      LET ld == IF modelArg = None THEN load(file)
                ELSE [err |-> "none", msg |-> "none", inst |-> <<m>>]
      IN IF ld.err # "none" THEN Err(ld.err, ld.msg)
         ELSE
           LET open == SelectSeq([i \in 1..Len(inv) |->
                                    ScoredRow(inv[i], i, 0)], IsOpen)
               fe == engineer_features("DataFrame")
               p == predict_proba_call(ld.inst[1], 1)
           IN IF open = <<>> THEN Ok([kind |-> "empty", rows |-> <<>>])
              ELSE IF fe.err # "none"
              THEN Err(fe.err, "engineer_features: as_of is a DataFrame")
              ELSE IF p.err # "none" THEN Err(p.err, p.msg)
              ELSE Ok([kind |-> "scored",
                       rows |-> SortByRiskDesc(
                          [i \in 1..Len(open) |->
                             ScoredRow(inv[open[i].invoice_id],
                                       open[i].invoice_id,
                                       RoundHalfEven(
                                          EstimatorProbaPermille(
                                             ld.inst[1],
                                             inv[open[i].invoice_id]),
                                          10))])])

ScoreInvoices ==
    /\ savePc = "idle"
    /\ \E modelArg \in {None, "model"}, pathArg \in {None, "model_path"} :
         /\ call' = [op |-> "score_invoices", model |-> modelArg,
                     model_path |-> pathArg]
         /\ LET r == score_invoices(invoices_df, customers_df,
                                    modelArg, pathArg)
            IN IF r.err = "none" THEN Returned("score_invoices", r.value)
               ELSE Raised("score_invoices", r.err, r.msg)
    /\ UNCHANGED <<m, dirExists, file, savePc, saved>>
    /\ UNCHANGED <<invoices_df, customers_df, recVars>>
    /\ UNCHANGED <<schedVars, tableVars, featVars>>

TrainedModel ==
    [NewModel("gradient_boost", 42, <<>>) EXCEPT
        !.model = Estimator("gradient_boost", 42, <<>>, 1),
        !.scaler = StandardScaler(1),
        !.feature_importances_ = <<"importances", 1>>,
        !.is_trained = TRUE]

\* A save() of TrainedModel cut short after three pieces.
TruncatedFile ==
    [exists |-> TRUE,
     chunks |-> SubSeq(PickleDump(ModelData(TrainedModel)), 1, 3)]

\* The caller's model and the model path: nothing trained or saved yet, a
\* trained and saved model, a trained model whose save was interrupted.
InitScore ==
    /\ \E s \in { <<NewModel("gradient_boost", 42, <<>>), AbsentFile, FALSE>>,
                  <<TrainedModel, CompleteFile(TrainedModel), TRUE>>,
                  <<TrainedModel, TruncatedFile, TRUE>> } :
          /\ m = s[1]
          /\ file = s[2]
          /\ dirExists = s[3]
    /\ invoices_df \in Batches
    /\ customers_df \in CustomerTables
    /\ InitIdle
    /\ InitNoRow
    /\ InitNoSchedule
    /\ InitNoTable
    /\ InitNoFeatures

NextScore == ScoreInvoices

SpecScore == InitScore /\ [][NextScore]_vars

-----------------------------------------------------------------------------
(* RecommendationEngine (recommendations/engine.py), one invoice row       *)

high_value_threshold == 10000
max_reminders == 5

MaxPriorActions == 6

\* The row has no risk_score column: row.get("risk_score", 50).
NoRiskScore == -1
DefaultRiskScore == 50

RecDueDaysAgo == {-5, 0, 1, 3, 4, 10, 11, 20, 21, 45, 46, 90, 91}
RecRiskScores == {NoRiskScore, 0, 6, 12, 36, 69, 70, 100}
RecAmounts == {500, 1000, 9999, 10000, 50000, 60000}

\* Open invoice rows: due_days_ago is (now - due_date).days, prior_actions
\* the number of logged actions of the invoice.
RecRows ==
    [due_days_ago : RecDueDaysAgo, risk_score : RecRiskScores,
     invoice_amount : RecAmounts, prior_actions : 0..MaxPriorActions]

\* utils.dates.days_overdue: max(0, days_between(due_date, as_of))
days_overdue(due_days_ago) == Max(0, due_days_ago)

RowRiskScore(r) ==
    IF r.risk_score = NoRiskScore THEN DefaultRiskScore ELSE r.risk_score

IsHighValue(r) == r.invoice_amount >= high_value_threshold

_determine_action(d, risk_score, prior_actions, is_high_value) ==
    IF prior_actions >= max_reminders THEN "escalate"
    ELSE IF d <= 0 /\ risk_score >= 70 THEN "friendly_reminder"
    ELSE IF 0 < d /\ d <= 3
         THEN (IF prior_actions = 0 THEN "friendly_reminder"
               ELSE "second_reminder")
    ELSE IF 4 <= d /\ d <= 10
         THEN (IF prior_actions = 0 THEN "reminder_with_inquiry" ELSE "call")
    ELSE IF 11 <= d /\ d <= 20
         THEN (IF is_high_value THEN "call" ELSE "firm_reminder")
    ELSE IF 21 <= d /\ d <= 45
         THEN (IF prior_actions < 2 THEN "payment_plan_offer"
               ELSE "pause_service_warning")
    ELSE (IF is_high_value THEN "escalate" ELSE "final_notice")

\* 45000 times the weighted sum of _calculate_priority, exactly:
\* overdue_score = min(900, 10 d) / 9, amount_score = min(50000, amount) / 500,
\* actions_score = min(100, 20 prior_actions).
PriorityTimes45000(d, risk_score, amount, prior_actions) ==
    4 * Min(900, 10 * d) * 500
      + 3 * risk_score * 4500
      + 2 * Min(50000, amount) * 9
      + Min(100, 20 * prior_actions) * 4500

\* The code adds the four products as IEEE-754 doubles.  On these inputs
\* <<days_overdue, risk_score, amount, prior_actions>> the double sum lies
\* just below the integer the exact sum equals (6 * 0.3 + 1.0 * 0.2 is
\* 1.9999999999999998); on every other row of RecRows with prior_actions up
\* to MaxPriorActions + 2 the double and the exact sum have the same integer
\* part.
Float64BelowInteger ==
    { <<0, 6, 500, 0>>, <<0, 12, 1000, 0>>, <<0, 36, 500, 0>>,
      <<0, 36, 500, 1>>, <<0, 36, 500, 2>>, <<45, 36, 500, 0>> }

\* int(priority): truncation of the double sum.
_calculate_priority(d, risk_score, amount, prior_actions) ==
    (PriorityTimes45000(d, risk_score, amount, prior_actions) \div 45000)
      - (IF <<d, risk_score, amount, prior_actions>> \in Float64BelowInteger
         THEN 1 ELSE 0)

_determine_urgency(priority) ==
    IF priority >= 75 THEN "critical"
    ELSE IF priority >= 50 THEN "high"
    ELSE IF priority >= 25 THEN "medium"
    ELSE "low"

determine_tone_FirmFirst(d, prior_actions, is_high_value) ==
    IF prior_actions >= 2 \/ d >= 30 THEN "firm"
    ELSE IF is_high_value /\ d < 15 THEN "friendly"
    ELSE IF d <= 7 /\ prior_actions = 0 THEN "friendly"
    ELSE "neutral"

_determine_tone(d, prior_actions, is_high_value) ==
    IF is_high_value /\ d < 15 THEN "friendly"
    ELSE IF d <= 7 /\ prior_actions = 0 THEN "friendly"
    ELSE IF prior_actions >= 2 \/ d >= 30 THEN "firm"
    ELSE "neutral"

\* The four columns recommend_actions computes for one open invoice row.
Recommendation(r) ==
    LET d == days_overdue(r.due_days_ago)
        priority == _calculate_priority(d, RowRiskScore(r), r.invoice_amount,
                                        r.prior_actions)
    IN [days_overdue |-> d,
        recommended_action |->
            _determine_action(d, RowRiskScore(r), r.prior_actions,
                              IsHighValue(r)),
        action_priority |-> priority,
        urgency |-> _determine_urgency(priority),
        message_tone |-> _determine_tone(d, r.prior_actions, IsHighValue(r))]

RecommendRow ==
    /\ rec = <<>>
    /\ rec' = <<Recommendation(row)>>
    /\ UNCHANGED row
    /\ UNCHANGED <<modelVars, scoreVars, schedVars, tableVars, featVars>>

InitRec ==
    /\ row \in RecRows
    /\ rec = <<>>
    /\ m = NewModel("gradient_boost", 42, <<>>)
    /\ file = AbsentFile
    /\ dirExists = FALSE
    /\ InitIdle
    /\ InitNoBatch
    /\ InitNoSchedule
    /\ InitNoTable
    /\ InitNoFeatures

NextRec == RecommendRow

SpecRec == InitRec /\ [][NextRec]_vars

-----------------------------------------------------------------------------
(* CollectionsScheduler (collections/collections_scheduler.py)             *)

\* Dates are whole days; day 0 is a Monday, so date.weekday() is date % 7.
weekday(date) == date % 7

CADENCES ==
    [k \in {"low_risk", "medium_risk", "high_risk", "very_high_risk"} |->
        CASE k = "low_risk" -> <<7, 14, 21, 30>>
          [] k = "medium_risk" -> <<5, 10, 15, 22, 30>>
          [] k = "high_risk" -> <<3, 7, 10, 14, 17, 21>>
          [] k = "very_high_risk" -> <<1, 3, 5, 7, 9, 12, 15>>]

\* while date.weekday() >= 5: date += timedelta(days=1)
RECURSIVE SkipWeekend(_)
SkipWeekend(date) ==
    IF weekday(date) >= 5 THEN SkipWeekend(date + 1) ELSE date

\* while date.date() in self.holidays: ...  A holiday is the object that was
\* registered: date.date() is a datetime.date, which equals a registered
\* datetime.date of the same day and never equals a datetime.datetime.
RECURSIVE SkipHolidays(_, _)
SkipHolidays(date, holidays) ==
    IF [kind |-> "date", day |-> date] \in holidays
    THEN SkipHolidays(SkipWeekend(date + 1), holidays)
    ELSE date

_get_next_business_date(self, date) ==
    IF ~self.business_days_only THEN date
    ELSE SkipHolidays(SkipWeekend(date), self.holidays)

_determine_action_type(attempt_number, d, risk_level) ==
    IF attempt_number = 1 THEN "friendly_reminder"
    ELSE IF attempt_number = 2 THEN "second_notice"
    ELSE IF attempt_number = 3
         THEN (IF risk_level = "very_high" \/ d > 30 THEN "call_request"
               ELSE "second_notice")
    ELSE IF attempt_number = 4
         THEN (IF d > 45 THEN "escalate" ELSE "call_request")
    ELSE IF attempt_number >= 5
         THEN (IF d > 60 THEN "escalate"
               ELSE IF attempt_number % 2 = 0 THEN "payment_plan"
               ELSE "call_request")
    ELSE "friendly_reminder"

\* self.CADENCES.get(f"{risk_level}_risk", self.CADENCES["medium_risk"])
CadenceOf(risk_level) ==
    LET risk_key == risk_level \o "_risk"
    IN IF risk_key \in DOMAIN CADENCES THEN CADENCES[risk_key]
       ELSE CADENCES["medium_risk"]

\* "if max_attempts:" -- None (<<>>) and 0 are both falsy; cadence[:k] is
\* the first k elements for k >= 0.
TruncatedCadence(risk_level, max_attempts) ==
    IF max_attempts # <<>> /\ max_attempts[1] # 0
    THEN SubSeq(CadenceOf(risk_level), 1,
                Min(max_attempts[1], Len(CadenceOf(risk_level))))
    ELSE CadenceOf(risk_level)

\* generate_schedule: the list of dicts; last_contact_date None (<<>>) is
\* datetime.now().
generate_schedule(self, invoice_id, customer_id, risk_level, d, last_contact_date, max_attempts) ==
    LET last == IF last_contact_date = <<>> THEN clock
                ELSE last_contact_date[1]
        cadence == TruncatedCadence(risk_level, max_attempts)
    IN [attempt_num \in 1..Len(cadence) |->
          [invoice_id |-> invoice_id,
           customer_id |-> customer_id,
           attempt_number |-> attempt_num,
           scheduled_date |->
               _get_next_business_date(self, last + cadence[attempt_num]),
           action_type |->
               _determine_action_type(attempt_num, d + cadence[attempt_num],
                                      risk_level),
           days_from_last_contact |-> cadence[attempt_num],
           estimated_days_overdue |-> d + cadence[attempt_num],
           status |-> "pending"]]

MaxAttemptsArg == 8

\* add_holidays: self.holidays.update(holiday_dates).  A caller registers
\* holidays as datetime objects (the declared argument type) or as date
\* objects.
AddHolidays ==
    /\ \E holiday_dates \in { {[kind |-> "datetime", day |-> 7]},
                               {[kind |-> "date", day |-> 7]},
                               {[kind |-> "date", day |-> 8]} } :
          /\ ~(holiday_dates \subseteq scheduler.holidays)
          /\ scheduler' = [scheduler EXCEPT
                              !.holidays = @ \cup holiday_dates]
    /\ UNCHANGED <<schedule_df, sched_call>>
    /\ UNCHANGED <<modelVars, scoreVars, recVars, tableVars, featVars>>

\* generate_schedule for one invoice, every argument free.
GenerateSchedule ==
    /\ sched_call.op = "none"
    /\ \E risk_level \in {"low", "medium", "high", "very_high", "critical"},
          d \in {0, 25, 50},
          last_contact_date \in {<<>>, <<2>>, <<4>>},
          max_attempts \in {<<>>} \cup { <<k>> : k \in 0..MaxAttemptsArg } :
          /\ schedule_df' = generate_schedule(scheduler, "INV1", "C001",
                                              risk_level, d,
                                              last_contact_date, max_attempts)
          /\ sched_call' = [op |-> "generate_schedule",
                            risk_level |-> risk_level,
                            days_overdue |-> d,
                            last_contact_date |-> last_contact_date,
                            max_attempts |-> max_attempts]
    /\ UNCHANGED scheduler
    /\ UNCHANGED <<modelVars, scoreVars, recVars, tableVars, featVars>>

\* CollectionsScheduler(business_days_only): holidays start empty.
InitCadence ==
    /\ scheduler \in [business_days_only : BOOLEAN, holidays : {{}}]
    /\ schedule_df = <<>>
    /\ sched_call = [op |-> "none"]
    /\ m = NewModel("gradient_boost", 42, <<>>)
    /\ file = AbsentFile
    /\ dirExists = FALSE
    /\ InitIdle
    /\ InitNoBatch
    /\ InitNoRow
    /\ InitNoTable
    /\ InitNoFeatures

NextCadence ==
    \/ AddHolidays
    \/ GenerateSchedule

SpecCadence == InitCadence /\ [][NextCadence]_vars

-----------------------------------------------------------------------------
(* Life cycle of a schedule frame                                          *)

MaxScheduleRows == 3

SchedInvoiceIds == {"INV1", "INV2"}

\* (invoice_id == invoice_id) & (attempt_number == attempt_number)
AttemptMask(r, invoice_id, attempt_number) ==
    r.invoice_id = invoice_id /\ r.attempt_number = attempt_number

PendingMask_AnyStatus(r, invoice_id) ==
    r.invoice_id = invoice_id

\* (invoice_id == invoice_id) & (status == "pending")
PendingMask_AnyInvoice(r, invoice_id) ==
    r.status = "pending"

PendingMask(r, invoice_id) ==
    r.invoice_id = invoice_id /\ r.status = "pending"

reschedule_action(self, df, invoice_id, attempt_number, new_date) ==
    [i \in DOMAIN df |->
        IF AttemptMask(df[i], invoice_id, attempt_number)
        THEN [df[i] EXCEPT
                !.scheduled_date = _get_next_business_date(self, new_date)]
        ELSE df[i]]

\* completed_date or datetime.now()
mark_completed(df, invoice_id, attempt_number, completed_date) ==
    [i \in DOMAIN df |->
        IF AttemptMask(df[i], invoice_id, attempt_number)
        THEN [df[i] EXCEPT
                !.status = "completed",
                !.completed_date =
                    IF completed_date = <<>> THEN <<clock>>
                    ELSE completed_date]
        ELSE df[i]]

cancel_future_actions(df, invoice_id) ==
    [i \in DOMAIN df |->
        IF PendingMask(df[i], invoice_id)
        THEN [df[i] EXCEPT !.status = "cancelled",
                           !.cancelled_date = <<clock>>]
        ELSE df[i]]

\* The frame is built from generate_schedule, one invoice after the other
\* (all_schedules.extend(schedule); pd.DataFrame(all_schedules)), each
\* invoice once.  completed_date and cancelled_date are the columns the
\* life-cycle calls add, NaN (<<>>) until written; reason and notes stay
\* None, so reschedule_reason and completion_notes are never written, and
\* cancellation_reason is written together with cancelled_date.
ScheduleInvoice ==
    /\ \E invoice_id \in SchedInvoiceIds, max_attempts \in 1..MaxScheduleRows :
          LET schedule == generate_schedule(scheduler, invoice_id,
                                            IF invoice_id = "INV1"
                                            THEN "C001" ELSE "C002",
                                            "very_high", 0, <<>>,
                                            <<max_attempts>>)
          IN /\ \A i \in DOMAIN schedule_df :
                   schedule_df[i].invoice_id # invoice_id
             /\ Len(schedule_df) + Len(schedule) <= MaxScheduleRows
             /\ schedule_df' =
                   schedule_df \o [i \in 1..Len(schedule) |->
                                      schedule[i]
                                         @@ [completed_date |-> <<>>,
                                             cancelled_date |-> <<>>]]
             /\ sched_call' = [op |-> "generate_schedule",
                               invoice_id |-> invoice_id,
                               attempt_number |-> 0]
    /\ UNCHANGED scheduler
    /\ UNCHANGED <<modelVars, scoreVars, recVars, tableVars, featVars>>

RescheduleAction ==
    /\ \E invoice_id \in SchedInvoiceIds,
          attempt_number \in 1..MaxScheduleRows :
          /\ schedule_df' = reschedule_action(scheduler, schedule_df,
                                              invoice_id, attempt_number, 12)
          /\ sched_call' = [op |-> "reschedule_action",
                            invoice_id |-> invoice_id,
                            attempt_number |-> attempt_number]
    /\ UNCHANGED scheduler
    /\ UNCHANGED <<modelVars, scoreVars, recVars, tableVars, featVars>>

MarkCompleted ==
    /\ \E invoice_id \in SchedInvoiceIds,
          attempt_number \in 1..MaxScheduleRows :
          /\ schedule_df' = mark_completed(schedule_df, invoice_id,
                                           attempt_number, <<>>)
          /\ sched_call' = [op |-> "mark_completed",
                            invoice_id |-> invoice_id,
                            attempt_number |-> attempt_number]
    /\ UNCHANGED scheduler
    /\ UNCHANGED <<modelVars, scoreVars, recVars, tableVars, featVars>>

CancelFutureActions ==
    /\ \E invoice_id \in SchedInvoiceIds :
          /\ schedule_df' = cancel_future_actions(schedule_df, invoice_id)
          /\ sched_call' = [op |-> "cancel_future_actions",
                            invoice_id |-> invoice_id,
                            attempt_number |-> 0]
    /\ UNCHANGED scheduler
    /\ UNCHANGED <<modelVars, scoreVars, recVars, tableVars, featVars>>

InitSched ==
    /\ InitNoSchedule
    /\ m = NewModel("gradient_boost", 42, <<>>)
    /\ file = AbsentFile
    /\ dirExists = FALSE
    /\ InitIdle
    /\ InitNoBatch
    /\ InitNoRow
    /\ InitNoTable
    /\ InitNoFeatures

NextSched ==
    \/ ScheduleInvoice
    \/ RescheduleAction
    \/ MarkCompleted
    \/ CancelFutureActions

SpecSched == InitSched /\ [][NextSched]_vars

-----------------------------------------------------------------------------
(* engineer_features and create_target_variable on tables (ml/features.py) *)

\* Timestamps are whole hours; Timedelta.days is the floor of hours / 24.
Days(hours) == hours \div 24

RECURSIVE Concat(_)
Concat(seqs) ==
    IF seqs = <<>> THEN <<>> ELSE Head(seqs) \o Concat(Tail(seqs))

\* A cell that may be missing is NaN (<<>>) or <<x>>.
NaN == <<>>

\* left.merge(right[[key] + columns], on=key, how="left"): every left row in
\* order, once per right row with the same key (in the order of right),
\* once with NaN in the new columns when no right row has the key.
MergeLeft(left, right, key, columns) ==
    Concat([i \in DOMAIN left |->
        LET hits == SelectSeq(right, LAMBDA r : r[key] = left[i][key])
        IN IF hits = <<>> THEN <<left[i] @@ [c \in columns |-> NaN]>>
           ELSE [k \in DOMAIN hits |->
                    left[i] @@ [c \in columns |-> hits[k][c]]]])

\* Series.sum() of an integer column.
RECURSIVE SumSeq(_)
SumSeq(values) ==
    IF values = <<>> THEN 0 ELSE Head(values) + SumSeq(Tail(values))

\* (invoice_amount / credit_limit).fillna(0).clip(0, 2) as a fraction
\* <<numerator, denominator>>: a missing limit gives NaN, filled with 0; a zero
\* limit gives +inf for a positive amount (clipped to 2), NaN for amount 0
\* and -inf for a negative amount (both end as 0).
credit_utilization(invoice_amount, credit_limit) ==
    IF credit_limit = NaN THEN <<0, 1>>
    ELSE IF credit_limit[1] = 0
         THEN (IF invoice_amount > 0 THEN <<2, 1>> ELSE <<0, 1>>)
    ELSE <<Min(Max(invoice_amount, 0), 2 * credit_limit[1]), credit_limit[1]>>

\* Customers in the order groupby returns them.
GroupKeys == <<"C001", "C002">>

\* days_late of a merged row: 0.0 without payment, else
\* (payment_date - due_date).dt.days.clip(lower=0).
days_late(r) ==
    IF r.payment_date = NaN THEN 0
    ELSE Max(0, Days(r.payment_date[1] - r.due_date))

\* _calculate_customer_history: one row per customer with an invoice issued
\* before as_of whose merged row survives the payment-date filter.  Means
\* are <<sum, count>>; the mean of amount skips NaN and is NaN when every
\* amount is NaN; customer_late_rate is in hundredths of a percent,
\* round(late_count / count * 100, 2).
_calculate_customer_history(invoices, payments, as_of) ==
    LET df == SelectSeq(invoices, LAMBDA r : r.issue_date < as_of)
        merged ==
            SelectSeq(MergeLeft(df, payments, "invoice_id",
                                {"payment_date", "amount"}),
                      LAMBDA r : r.payment_date = NaN
                                    \/ r.payment_date[1] < as_of)
        OfCustomer(c) == SelectSeq(merged, LAMBDA r : r.customer_id = c)
        keys == SelectSeq(GroupKeys, LAMBDA c : OfCustomer(c) # <<>>)
    IN [k \in DOMAIN keys |->
          LET rows == OfCustomer(keys[k])
              withAmount == SelectSeq(rows, LAMBDA r : r.amount # NaN)
              late == SelectSeq(rows, LAMBDA r : days_late(r) > 0)
          IN [customer_id |-> keys[k],
              customer_invoice_count |-> <<Len(rows)>>,
              customer_avg_days_late |->
                  <<SumSeq([i \in DOMAIN rows |-> days_late(rows[i])]),
                    Len(rows)>>,
              customer_avg_payment_amount |->
                  IF withAmount = <<>> THEN NaN
                  ELSE <<SumSeq([i \in DOMAIN withAmount |->
                                    withAmount[i].amount[1]]),
                         Len(withAmount)>>,
              customer_late_rate |->
                  <<RoundHalfEven(Len(late) * 10000, Len(rows))>>]]

\* engineer_features on tables.  The columns computed from one row alone
\* (calendar parts, log, sqrt, amount bucket, encodings, interactions) add
\* no row and drop none; of them the frame below keeps the day counts.
\* payments is [kind |-> "None"] or [kind |-> "frame", rows |-> ...].
\* The last statement calls .fillna on the int 0 when no open invoice amount
\* is left (total_ar > 0 is false): AttributeError.
FeatureFrame(invoices, customers, payments, as_of) ==
    LET withCustomer ==
            MergeLeft(invoices, customers, "customer_id",
                      {"payment_terms_days", "credit_limit"})
        withUtilization ==
            [i \in DOMAIN withCustomer |->
                LET r == withCustomer[i]
                IN r @@ [days_until_due |-> Days(r.due_date - as_of),
                         days_since_issue |-> Days(as_of - r.issue_date),
                         payment_term_days |->
                             Days(r.due_date - r.issue_date),
                         credit_utilization |->
                             credit_utilization(r.invoice_amount,
                                                r.credit_limit)]]
        hasPayments == payments.kind = "frame" /\ payments.rows # <<>>
        withHistory ==
            IF hasPayments
            THEN MergeLeft(withUtilization,
                           _calculate_customer_history(invoices,
                                                       payments.rows, as_of),
                           "customer_id",
                           {"customer_invoice_count",
                            "customer_avg_days_late", "customer_late_rate",
                            "customer_avg_payment_amount"})
            ELSE [i \in DOMAIN withUtilization |->
                     withUtilization[i]
                        @@ [customer_invoice_count |-> <<1>>,
                            customer_avg_days_late |-> <<0, 1>>,
                            customer_late_rate |-> <<0>>,
                            customer_avg_payment_amount |->
                                <<withUtilization[i].invoice_amount, 1>>]]
        filled ==
            [i \in DOMAIN withHistory |->
                [withHistory[i] EXCEPT
                    !.customer_invoice_count = IF @ = NaN THEN <<1>> ELSE @,
                    !.customer_avg_days_late = IF @ = NaN THEN <<0, 1>> ELSE @,
                    !.customer_late_rate = IF @ = NaN THEN <<0>> ELSE @,
                    !.customer_avg_payment_amount =
                        IF @ = NaN
                        THEN <<withHistory[i].invoice_amount, 1>> ELSE @]]
        open == SelectSeq(filled, LAMBDA r : r.status = "open")
        total_ar == SumSeq([i \in DOMAIN open |-> open[i].invoice_amount])
        OpenOf(c) == SelectSeq(open, LAMBDA r : r.customer_id = c)
        keys == SelectSeq(GroupKeys, LAMBDA c : OpenOf(c) # <<>>)
        customer_ar ==
            [k \in DOMAIN keys |->
                [customer_id |-> keys[k],
                 customer_total_ar |->
                     <<SumSeq([i \in DOMAIN OpenOf(keys[k]) |->
                                  OpenOf(keys[k])[i].invoice_amount])>>]]
        withAr ==
            MergeLeft(filled, customer_ar, "customer_id",
                      {"customer_total_ar"})
    IN IF total_ar > 0
       THEN [err |-> "none",
             rows |->
                [i \in DOMAIN withAr |->
                    withAr[i]
                       @@ [customer_ar_concentration |->
                              IF withAr[i].customer_total_ar = NaN
                              THEN <<0, 1>>
                              ELSE <<100 * withAr[i].customer_total_ar[1],
                                     total_ar>>]]]
       ELSE [err |-> "AttributeError", rows |-> <<>>]

is_late_AtThreshold(days, late_threshold_days) ==
    IF days >= late_threshold_days THEN 1 ELSE 0

\* (df["days_late"] > late_threshold_days).astype(int)
is_late(days, late_threshold_days) ==
    IF days > late_threshold_days THEN 1 ELSE 0

\* create_target_variable: payments_df.copy() on None raises AttributeError.
create_target_variable(invoices, payments, late_threshold_days) ==
    IF payments.kind = "None"
    THEN [err |-> "AttributeError", rows |-> <<>>]
    ELSE LET merged ==
                 MergeLeft(invoices, payments.rows, "invoice_id",
                           {"payment_date"})
         IN [err |-> "none",
             rows |->
                [i \in DOMAIN merged |->
                    merged[i]
                       @@ [days_late |-> days_late(merged[i]),
                           is_late |-> is_late(days_late(merged[i]),
                                               late_threshold_days)]]]

MaxFeatInvoices == 2

\* The invoice at position i of a table: invoice_id i, issued at hour 0 or
\* (even positions) at hour 240, due 30 days later.
FeatInvoiceRows(i) ==
    { [invoice_id |-> i, customer_id |-> c, invoice_amount |-> a,
       issue_date |-> IF i % 2 = 0 THEN 240 ELSE 0,
       due_date |-> (IF i % 2 = 0 THEN 240 ELSE 0) + 720,
       status |-> st] :
         c \in {"C001", "C002"}, a \in {500, 3000}, st \in InvoiceStatuses }

FeatInvoiceTables ==
    UNION { { t \in [1..n -> UNION { FeatInvoiceRows(i) : i \in 1..n }] :
                 \A i \in 1..n : t[i] \in FeatInvoiceRows(i) } :
            n \in 1..MaxFeatInvoices }

\* Customer tables with one row per customer_id.
FeatCustomerTables ==
    LET CustomerRow(c, limit) ==
            [customer_id |-> c, payment_terms_days |-> <<30>>,
             credit_limit |-> limit]
    IN { <<CustomerRow("C001", <<1000>>), CustomerRow("C002", <<0>>)>>,
         <<CustomerRow("C001", NaN)>>,
         <<CustomerRow("C001", <<1000>>), CustomerRow("C002", <<2000>>)>> }

Payment(invoice_id, payment_date) ==
    [invoice_id |-> invoice_id, payment_date |-> <<payment_date>>,
     amount |-> <<500>>]

Frame(rows) == [kind |-> "frame", rows |-> rows]

\* Invoice 1 is due at hour 720: paid early (700), exactly 7 days late (888),
\* 7 days 13 hours late (901), 8 days late (912); twice; together with
\* invoice 2; and a payment of an invoice that is not in the table.
FeatPaymentTables ==
    { [kind |-> "None"],
      Frame(<<>>),
      Frame(<<Payment(1, 700)>>),
      Frame(<<Payment(1, 888)>>),
      Frame(<<Payment(1, 901)>>),
      Frame(<<Payment(1, 912)>>),
      Frame(<<Payment(1, 912), Payment(1, 700)>>),
      Frame(<<Payment(1, 912), Payment(2, 900)>>),
      Frame(<<Payment(9, 912)>>) }

EngineerFeatures ==
    /\ feat_in.op = "none"
    /\ \E invoices \in FeatInvoiceTables, customers \in FeatCustomerTables,
          payments \in FeatPaymentTables, as_of \in {120, 905, 1440} :
          /\ feat_in' = [op |-> "engineer_features", invoices |-> invoices,
                         customers |-> customers, payments |-> payments,
                         as_of |-> as_of]
          /\ feat_out' = <<FeatureFrame(invoices, customers, payments, as_of)>>
    /\ UNCHANGED <<modelVars, scoreVars, recVars, schedVars, tableVars>>

CreateTargetVariable ==
    /\ feat_in.op = "none"
    /\ \E invoices \in FeatInvoiceTables, payments \in FeatPaymentTables,
          late_threshold_days \in {0, 7} :
          /\ feat_in' = [op |-> "create_target_variable",
                         invoices |-> invoices, payments |-> payments,
                         late_threshold_days |-> late_threshold_days]
          /\ feat_out' = <<create_target_variable(invoices, payments,
                                                  late_threshold_days)>>
    /\ UNCHANGED <<modelVars, scoreVars, recVars, schedVars, tableVars>>

InitFeat ==
    /\ m = NewModel("gradient_boost", 42, <<>>)
    /\ file = AbsentFile
    /\ dirExists = FALSE
    /\ InitIdle
    /\ InitNoBatch
    /\ InitNoRow
    /\ InitNoSchedule
    /\ InitNoTable
    /\ InitNoFeatures

NextFeat == EngineerFeatures \/ CreateTargetVariable

SpecFeat == InitFeat /\ [][NextFeat]_vars

-----------------------------------------------------------------------------
(* recommend_actions on tables (recommendations/engine.py)                 *)

\* numpy's quicksort is an introsort: median-of-three partitioning while a
\* range spans more than SMALL_QUICKSORT positions, insertion sort below.
SMALL_QUICKSORT == 16

Swap(t, i, j) == [t EXCEPT ![i] = t[j], ![j] = t[i]]

RECURSIVE ScanUp(_, _, _, _)
ScanUp(v, t, pi, vp) ==
    IF v[t[pi]] < vp THEN ScanUp(v, t, pi + 1, vp) ELSE pi

RECURSIVE ScanDown(_, _, _, _)
ScanDown(v, t, pj, vp) ==
    IF vp < v[t[pj]] THEN ScanDown(v, t, pj - 1, vp) ELSE pj

RECURSIVE PartitionLoop(_, _, _, _, _)
PartitionLoop(v, t, pi, pj, vp) ==
    LET i == ScanUp(v, t, pi + 1, vp)
        j == ScanDown(v, t, pj - 1, vp)
    IN IF i >= j THEN <<t, i>>
       ELSE PartitionLoop(v, Swap(t, i, j), i, j, vp)

\* One partition of tosort[pl..pr]: <<tosort afterwards, pivot position>>.
Partition(v, t, pl, pr) ==
    LET pm == pl + (pr - pl) \div 2
        t1 == IF v[t[pm]] < v[t[pl]] THEN Swap(t, pm, pl) ELSE t
        t2 == IF v[t1[pr]] < v[t1[pm]] THEN Swap(t1, pr, pm) ELSE t1
        t3 == IF v[t2[pm]] < v[t2[pl]] THEN Swap(t2, pm, pl) ELSE t2
        vp == v[t3[pm]]
        t4 == Swap(t3, pm, pr - 1)
        done == PartitionLoop(v, t4, pl, pr - 1, vp)
    IN <<Swap(done[1], done[2], pr - 1), done[2]>>

RECURSIVE ShiftDown(_, _, _, _, _)
ShiftDown(v, t, pl, pj, vi) ==
    IF pj > pl /\ v[vi] < v[t[pj - 1]]
    THEN ShiftDown(v, [t EXCEPT ![pj] = t[pj - 1]], pl, pj - 1, vi)
    ELSE [t EXCEPT ![pj] = vi]

RECURSIVE InsertionSort(_, _, _, _, _)
InsertionSort(v, t, pl, pi, pr) ==
    IF pi > pr THEN t
    ELSE InsertionSort(v, ShiftDown(v, t, pl, pi, t[pi]), pl, pi + 1, pr)

RECURSIVE aquicksort(_, _, _, _)
aquicksort(v, t, pl, pr) ==
    IF pr - pl > SMALL_QUICKSORT
    THEN LET p == Partition(v, t, pl, pr)
         IN aquicksort(v, aquicksort(v, p[1], pl, p[2] - 1), p[2] + 1, pr)
    ELSE InsertionSort(v, t, pl, pl + 1, pr)

\* df.sort_values(by, ascending=False) with the default kind="quicksort" on
\* a frame with at least one row: pandas reverses the keys, argsorts them
\* and reverses the result.
sort_values_descending(rows, by) ==
    LET n == Len(rows)
        reversed == [j \in 1..n |-> rows[n + 1 - j][by]]
        order == aquicksort(reversed, [i \in 1..n |-> i], 1, n)
    IN [k \in 1..n |-> rows[n + 1 - order[n + 1 - k]]]

\* recommend_actions at wall-clock day now; the result is a new frame, the
\* three input tables are only read.
recommend_actions(invoices, customers, actions, now) ==
    LET open == SelectSeq(invoices, LAMBDA r : r.status = "open")
        withName ==
            MergeLeft(open, customers, "customer_id", {"name"})
        PriorActions(r) ==
            IF actions.kind = "frame" /\ actions.rows # <<>>
            THEN Len(SelectSeq(actions.rows,
                               LAMBDA a : a.invoice_id = r.invoice_id))
            ELSE 0
        recommended ==
            [i \in DOMAIN withName |->
                LET r == withName[i]
                IN r @@ [prior_actions |-> PriorActions(r),
                         is_high_value |->
                             r.invoice_amount >= high_value_threshold]
                     @@ Recommendation(
                            [due_days_ago |-> now - r.due_date,
                             risk_score |-> r.risk_score,
                             invoice_amount |-> r.invoice_amount,
                             prior_actions |-> PriorActions(r)])]
    IN IF open = <<>> THEN <<>>
       ELSE sort_values_descending(recommended, "action_priority")

MaxTableRows == 2
MaxTicks == 1
TableStartDay == 10

\* The invoice at position i of the input table has invoice_id i.
TableInvoiceRows(i) ==
    { [invoice_id |-> i, customer_id |-> "C001", status |-> st,
       due_date |-> due, risk_score |-> rs, invoice_amount |-> 500] :
         st \in InvoiceStatuses, due \in {0, 7, 20}, rs \in {36, 70} }

\* The tables of up to MaxTableRows rows, and one table that needs a
\* partition step: open invoices that all get the same action_priority.
TableInvoices ==
    { [i \in 1..(SMALL_QUICKSORT + 2) |->
          [invoice_id |-> i, customer_id |-> "C001", status |-> "open",
           due_date |-> 20, risk_score |-> 70, invoice_amount |-> 500]] }
    \cup
    UNION { { t \in [1..n -> UNION { TableInvoiceRows(i) : i \in 1..n }] :
                 \A i \in 1..n : t[i] \in TableInvoiceRows(i) } :
            n \in 1..MaxTableRows }

TableActions ==
    { [kind |-> "None"],
      Frame(<<>>),
      Frame(<<[invoice_id |-> 1]>>),
      Frame(<<[invoice_id |-> 1], [invoice_id |-> 1]>>) }

\* The wall clock passes midnight.
Tick ==
    /\ clock < TableStartDay + MaxTicks
    /\ clock' = clock + 1
    /\ UNCHANGED <<rec_in, rec_outs>>
    /\ UNCHANGED <<modelVars, scoreVars, recVars, schedVars, featVars>>

\* One call of recommend_actions on the tables of rec_in.
RecommendActions ==
    /\ Len(rec_outs) < 2
    /\ rec_outs' = Append(rec_outs,
                          recommend_actions(rec_in.invoices_df,
                                            rec_in.customers_df,
                                            rec_in.actions_df, clock))
    /\ UNCHANGED <<clock, rec_in>>
    /\ UNCHANGED <<modelVars, scoreVars, recVars, schedVars, featVars>>

InitTable ==
    /\ m = NewModel("gradient_boost", 42, <<>>)
    /\ file = AbsentFile
    /\ dirExists = FALSE
    /\ InitIdle
    /\ InitNoBatch
    /\ InitNoRow
    /\ InitNoSchedule
    /\ InitNoFeatures
    /\ clock = TableStartDay
    /\ rec_in \in [invoices_df : TableInvoices,
                   customers_df :
                       { <<[customer_id |-> "C001", name |-> <<"Acme">>]>> },
                   actions_df : TableActions]
    /\ rec_outs = <<>>

NextTable == Tick \/ RecommendActions

SpecTable == InitTable /\ [][NextTable]_vars

-----------------------------------------------------------------------------
(* Claims on the model life cycle (SpecModel)                              *)

UntrainedCalls == {"predict_proba", "predict_risk_scores", "save"}

\* Every action sets lastOp to its own name when it returns or raises, so a
\* step that changes the state and ends with lastOp' in UntrainedCalls is
\* that call.
UntrainedCallStep ==
    /\ ~m.is_trained
    /\ lastOp' \in UntrainedCalls

C3_AsClaimed ==
    (lastOp = "train" /\ RowsWithPayment(call) < MinTrainingRows)
        => (lastErr # "none" /\ ~m.is_trained)

\* C19 as stated: the training and test rows of a train call are exactly the
\* rows that carry a recorded payment; an invoice without payment
\* contributes no row.
C19_AsClaimed ==
    (lastOp = "train" /\ lastErr = "none")
        => lastResult.train_samples + lastResult.test_samples
              = RowsWithPayment(call)

\* C4 as stated: load of an artifact whose stored feature-column list differs
\* from get_feature_columns() fails instead of returning a trained model, and
\* no scoring proceeds with a mismatched column list.
C4_AsClaimed ==
    /\ (lastOp = "load" /\ IsCompleteStream(file.chunks)
          /\ PickleLoad(file.chunks).feature_columns # get_feature_columns)
         => lastErr = "FeatureContractMismatchError"
    /\ (lastOp = "predict_proba" /\ lastErr = "none")
         => lastResult.columns = get_feature_columns

\* C5 as stated: at every moment the model path holds no file or a complete
\* artifact, and no reader ever gets a truncated stream.
C5_AsClaimed ==
    /\ file.exists => IsCompleteStream(file.chunks)
    /\ lastOp \in {"load", "reader_load"} => lastErr # "EOFError"

\* C6: load of the file a completed save(m) wrote returns a trained model
\* with the estimator, scaler, ordered feature columns, model_type,
\* random_seed, model_params and feature importances of m, which scores as
\* m does.
C6_RoundTrip ==
    (lastOp = "load" /\ lastErr = "none" /\ savePc = "idle" /\ saved # <<>>)
        => /\ m.is_trained
           /\ m.model = saved[1].model
           /\ m.scaler = saved[1].scaler
           /\ m.feature_columns = saved[1].feature_columns
           /\ m.model_type = saved[1].model_type
           /\ m.random_seed = saved[1].random_seed
           /\ m.model_params = saved[1].model_params
           /\ m.feature_importances_ = saved[1].feature_importances_
           /\ predict_proba(m) = predict_proba(saved[1])

\* A logistic model with a non-default seed came back from its own save.
C6_Witness ==
    /\ lastOp = "load" /\ lastErr = "none" /\ savePc = "idle" /\ saved # <<>>
    /\ m.model_type = "logistic" /\ m.random_seed = 7
    /\ m.scaler.fit # 0

-----------------------------------------------------------------------------
(* Claims on score_invoices (SpecScore)                                    *)

RECURSIVE CountOpen(_)
CountOpen(inv) ==
    IF inv = <<>> THEN 0
    ELSE (IF Head(inv).status = "open" THEN 1 ELSE 0) + CountOpen(Tail(inv))

RiskCategories == {"low", "medium", "high", "very_high"}

ScoredCall == lastOp = "score_invoices"

\* One result row per open invoice of the batch, each an open invoice.
OneRowPerOpenInvoice(rows) ==
    /\ Len(rows) = CountOpen(invoices_df)
    /\ \A i \in 1..Len(rows) :
          /\ rows[i].invoice_id \in 1..Len(invoices_df)
          /\ invoices_df[rows[i].invoice_id].status = "open"
    /\ \A i, j \in 1..Len(rows) :
          rows[i].invoice_id = rows[j].invoice_id => i = j

\* C2: score_invoices without a model object and with model_path None or not
\* existing never raises; it returns the fallback rows, one per open invoice
\* with risk_score and risk_category, and no row when nothing is open.
C2_FallbackWhenNoModel ==
    (ScoredCall /\ call.model = None
       /\ (call.model_path = None \/ ~file.exists))
        => /\ lastErr = "none"
           /\ lastResult.kind = "fallback"
           /\ OneRowPerOpenInvoice(lastResult.rows)
           /\ \A i \in 1..Len(lastResult.rows) :
                 /\ lastResult.rows[i].risk_score \in 0..100
                 /\ lastResult.rows[i].risk_category \in RiskCategories
           /\ (CountOpen(invoices_df) = 0 => lastResult.rows = <<>>)

\* A model path was given, the file is missing, and open invoices came back
\* scored.
C2_Witness ==
    /\ ScoredCall /\ call.model = None /\ call.model_path = "model_path"
    /\ ~file.exists
    /\ lastResult.kind = "fallback" /\ Len(lastResult.rows) = 2

\* The category the spec assigns to a score.
ClaimedCategory(score) ==
    IF score \in 0..30 THEN "low"
    ELSE IF score \in 31..60 THEN "medium"
    ELSE IF score \in 61..85 THEN "high"
    ELSE IF score \in 86..100 THEN "very_high"
    ELSE "undefined"

\* C7: _categorize_risk is low on 0..30, medium on 31..60, high on 61..85 and
\* very_high on 86..100, and every row score_invoices returns carries the
\* category of its own risk_score.
C7_CategoryOfScore ==
    /\ \A score \in 0..100 : _categorize_risk(score) = ClaimedCategory(score)
    /\ (ScoredCall /\ lastErr = "none")
         => \A i \in 1..Len(lastResult.rows) :
               lastResult.rows[i].risk_category
                  = ClaimedCategory(lastResult.rows[i].risk_score)

\* A returned batch with a row at 85 (still high) and a row at 30 (still low).
C7_Witness ==
    /\ ScoredCall /\ lastErr = "none"
    /\ \E i, j \in 1..Len(lastResult.rows) :
          /\ lastResult.rows[i].risk_score = 85
          /\ lastResult.rows[i].risk_category = "high"
          /\ lastResult.rows[j].risk_score = 30
          /\ lastResult.rows[j].risk_category = "low"

\* C8 as stated: score_invoices with a trained model (passed in, or loaded
\* from an existing model_path) and at least one open invoice returns one
\* row per open invoice, each with an integer risk_score in 0..100.
C8_AsClaimed ==
    (/\ ScoredCall
     /\ \/ call.model = "model" /\ m.is_trained
        \/ call.model = None /\ call.model_path = "model_path"
             /\ file.exists /\ IsCompleteStream(file.chunks)
     /\ CountOpen(invoices_df) >= 1)
        => /\ lastErr = "none"
           /\ lastResult.kind = "scored"
           /\ OneRowPerOpenInvoice(lastResult.rows)
           /\ \A i \in 1..Len(lastResult.rows) :
                 lastResult.rows[i].risk_score \in 0..100

-----------------------------------------------------------------------------
(* Claims on the recommendation engine (SpecRec)                           *)

\* The actions the seven-rule table of the spec allows: those of the first
\* rule that matches, none when no rule matches.
ClaimedActions(d, risk_score, amount, prior_actions) ==
    IF prior_actions >= 5 THEN {"escalate"}
    ELSE IF d <= 0 /\ risk_score >= 70 THEN {"friendly_reminder"}
    ELSE IF d \in 1..3
         THEN (IF prior_actions = 0 THEN {"friendly_reminder"}
               ELSE {"second_reminder"})
    ELSE IF d \in 4..10
         THEN (IF prior_actions = 0 THEN {"reminder_with_inquiry"}
               ELSE {"call"})
    ELSE IF d \in 11..20
         THEN (IF amount >= 10000 THEN {"call"} ELSE {"firm_reminder"})
    ELSE IF d \in 21..45
         THEN (IF prior_actions < 2 THEN {"payment_plan_offer"}
               ELSE {"pause_service_warning"})
    ELSE IF d > 45
         THEN (IF amount >= 10000 THEN {"escalate"} ELSE {"final_notice"})
    ELSE {}

\* C9 as stated: the recommended action of every open invoice is the action
\* of the first matching rule of the seven-rule table.
C9_AsClaimed ==
    rec # <<>> =>
        rec[1].recommended_action \in
            ClaimedActions(rec[1].days_overdue, RowRiskScore(row),
                           row.invoice_amount, row.prior_actions)

PriorityOf(r) ==
    _calculate_priority(days_overdue(r.due_days_ago), RowRiskScore(r),
                        r.invoice_amount, r.prior_actions)

\* Rows that differ from r in one input, which is not smaller than in r.
OneInputRaised(r) ==
    { [r EXCEPT !.due_days_ago = x] : x \in { y \in RecDueDaysAgo :
                                                y >= r.due_days_ago } }
    \cup { [r EXCEPT !.risk_score = x] :
              x \in { y \in RecRiskScores \ {NoRiskScore} :
                        r.risk_score # NoRiskScore /\ y >= r.risk_score } }
    \cup { [r EXCEPT !.invoice_amount = x] :
              x \in { y \in RecAmounts : y >= r.invoice_amount } }
    \cup { [r EXCEPT !.prior_actions = x] :
              x \in r.prior_actions..MaxPriorActions }

\* C10 as stated: action_priority is an integer in 0..100, equal to the
\* integer part of 0.4 min(100, d/90*100) + 0.3 risk + 0.2 min(100,
\* amount/50000*100) + 0.1 min(100, prior/5*100), and does not decrease when
\* one input grows.
C10_AsClaimed ==
    rec # <<>> =>
        /\ rec[1].action_priority \in 0..100
        /\ rec[1].action_priority =
              PriorityTimes45000(rec[1].days_overdue, RowRiskScore(row),
                                 row.invoice_amount, row.prior_actions)
                 \div 45000
        /\ \A r2 \in OneInputRaised(row) :
              PriorityOf(r2) >= rec[1].action_priority

-----------------------------------------------------------------------------
(* Claims on the schedule life cycle (SpecSched)                           *)

\* C13: an attempt whose status is completed keeps status completed through
\* every later reschedule_action, mark_completed and cancel_future_actions
\* call (and through the scheduling of further invoices).
C13_CompletedStays ==
    [][\A i \in DOMAIN schedule_df :
          schedule_df[i].status = "completed" =>
             /\ i \in DOMAIN schedule_df'
             /\ schedule_df'[i].status = "completed"]_vars

\* cancel_future_actions has just run on an invoice with an attempt that was
\* completed before (it carries no cancelled_date) and was rescheduled, and
\* it cancelled another attempt of the invoice.
C13_Witness ==
    /\ sched_call.op = "cancel_future_actions"
    /\ \E i, j \in DOMAIN schedule_df :
          /\ schedule_df[i].invoice_id = sched_call.invoice_id
          /\ schedule_df[i].status = "completed"
          /\ schedule_df[i].cancelled_date = <<>>
          /\ schedule_df[i].scheduled_date = 14
          /\ schedule_df[j].invoice_id = sched_call.invoice_id
          /\ schedule_df[j].status = "cancelled"

\* C14 as stated: an attempt whose status is cancelled keeps status
\* cancelled through every later call and is never reported as completed.
C14_AsClaimed ==
    [][\A i \in DOMAIN schedule_df :
          schedule_df[i].status = "cancelled" =>
             /\ i \in DOMAIN schedule_df'
             /\ schedule_df'[i].status = "cancelled"]_vars

\* C15 as stated: reschedule_action leaves every status alone and changes
\* the scheduled_date of no attempt but the one identified by (invoice_id,
\* attempt_number), and of that one only while it is pending.
C15_AsClaimed ==
    [][sched_call'.op = "reschedule_action" =>
          \A i \in DOMAIN schedule_df :
             /\ schedule_df'[i].status = schedule_df[i].status
             /\ schedule_df'[i].scheduled_date # schedule_df[i].scheduled_date
                   => /\ AttemptMask(schedule_df[i], sched_call'.invoice_id,
                                     sched_call'.attempt_number)
                      /\ schedule_df[i].status = "pending"]_vars

-----------------------------------------------------------------------------
(* Claims on generate_schedule (SpecCadence)                               *)

\* The cadence table of the claim; an unknown tier uses the medium cadence.
ClaimedCadence(risk_level) ==
    CASE risk_level = "low" -> <<7, 14, 21, 30>>
      [] risk_level = "high" -> <<3, 7, 10, 14, 17, 21>>
      [] risk_level = "very_high" -> <<1, 3, 5, 7, 9, 12, 15>>
      [] OTHER -> <<5, 10, 15, 22, 30>>

\* C16 as stated: the schedule is the cadence of the tier cut to n attempts
\* numbered 1..n, all pending, days_from_last_contact the cadence offset;
\* n is the cadence length without max_attempts and min(max_attempts,
\* cadence length) for every max_attempts >= 0, so never more than
\* max_attempts attempts.
C16_AsClaimed ==
    sched_call.op = "generate_schedule" =>
        LET cadence == ClaimedCadence(sched_call.risk_level)
            n == IF sched_call.max_attempts = <<>> THEN Len(cadence)
                 ELSE Min(sched_call.max_attempts[1], Len(cadence))
        IN /\ Len(schedule_df) = n
           /\ \A k \in 1..Min(n, Len(schedule_df)) :
                 /\ schedule_df[k].attempt_number = k
                 /\ schedule_df[k].status = "pending"
                 /\ schedule_df[k].days_from_last_contact = cadence[k]
           /\ sched_call.max_attempts # <<>> =>
                 Len(schedule_df) <= sched_call.max_attempts[1]


-----------------------------------------------------------------------------
(* Claims about the feature engine (SpecFeat)                              *)

\* C17: engineer_features returns exactly one row per input invoice row, in
\* input order, for any invoices table, unique-customer table, optional
\* payments table and as_of.
C17_AsClaimed ==
    feat_in.op = "engineer_features"
        => /\ feat_out[1].err = "none"
           /\ Len(feat_out[1].rows) = Len(feat_in.invoices)
           /\ \A i \in DOMAIN feat_in.invoices :
                 feat_out[1].rows[i].invoice_id = feat_in.invoices[i].invoice_id

\* C18: credit_utilization is invoice_amount / credit_limit clipped to [0, 2],
\* and 0 when the customer's credit_limit is missing or zero.
C18_AsClaimed ==
    (feat_in.op = "engineer_features" /\ feat_out[1].err = "none")
        => \A i \in DOMAIN feat_out[1].rows :
              LET r == feat_out[1].rows[i]
                  u == r.credit_utilization
              IN IF r.credit_limit = NaN \/ r.credit_limit = <<0>>
                 THEN u[1] = 0
                 ELSE /\ u[1] = Min(Max(r.invoice_amount, 0),
                                        2 * r.credit_limit[1])
                      /\ u[2] = r.credit_limit[1]

\* C20: is_late is 1 exactly when the invoice row has a payment dated more
\* than late_threshold_days whole days after due_date, that is at least
\* late_threshold_days + 1 full days; a payment exactly at the threshold,
\* on time or early, and a row without payment give 0.
C20_IsLateIffBeyondThreshold ==
    (feat_in.op = "create_target_variable" /\ feat_out[1].err = "none")
        => /\ Len(feat_out[1].rows) >= Len(feat_in.invoices)
           /\ \A i \in DOMAIN feat_out[1].rows :
                 LET r == feat_out[1].rows[i]
                 IN /\ r.is_late \in {0, 1}
                    /\ r.is_late = 1
                          <=> /\ r.payment_date # NaN
                              /\ r.payment_date[1] - r.due_date
                                    >= (feat_in.late_threshold_days + 1) * 24

\* A frame labelled with threshold 7 that holds a payment 7 days 13 hours
\* late labelled 0 next to an unpaid row labelled 0.
C20_Witness ==
    /\ feat_in.op = "create_target_variable"
    /\ feat_out # <<>>
    /\ feat_out[1].err = "none"
    /\ feat_in.late_threshold_days = 7
    /\ \E i, j \in DOMAIN feat_out[1].rows :
          /\ feat_out[1].rows[i].payment_date = <<901>>
          /\ feat_out[1].rows[i].due_date = 720
          /\ feat_out[1].rows[i].is_late = 0
          /\ feat_out[1].rows[j].payment_date = NaN
          /\ feat_out[1].rows[j].is_late = 0

-----------------------------------------------------------------------------
(* Claims about recommend_actions on tables (SpecTable)                    *)

\* C11: the table recommend_actions returns is ordered by action_priority
\* descending, and two rows of equal action_priority keep the relative order
\* their invoices had in the input.
C11_AsClaimed ==
    \A c \in DOMAIN rec_outs :
        \A i, j \in DOMAIN rec_outs[c] :
            i < j =>
                \/ rec_outs[c][i].action_priority
                      > rec_outs[c][j].action_priority
                \/ /\ rec_outs[c][i].action_priority
                         = rec_outs[c][j].action_priority
                   /\ rec_outs[c][i].invoice_id < rec_outs[c][j].invoice_id

\* C12: two calls of recommend_actions with the same invoices, customers and
\* prior-actions tables return identical output, and no call modifies an
\* input table.
C12_AsClaimed ==
    /\ [](Len(rec_outs) = 2 => rec_outs[1] = rec_outs[2])
    /\ [][rec_in' = rec_in]_vars

-----------------------------------------------------------------------------
(* Aging buckets (utils/dates.py)                                          *)

MaxAgingDays == 200

get_aging_bucket_Strict(d) ==
    IF d < 0 THEN "current"
    ELSE IF d < 15 THEN "1-15"
    ELSE IF d < 30 THEN "16-30"
    ELSE IF d < 60 THEN "31-60"
    ELSE IF d < 90 THEN "61-90"
    ELSE "90+"

get_aging_bucket(d) ==
    IF d <= 0 THEN "current"
    ELSE IF d <= 15 THEN "1-15"
    ELSE IF d <= 30 THEN "16-30"
    ELSE IF d <= 60 THEN "31-60"
    ELSE IF d <= 90 THEN "61-90"
    ELSE "90+"

\* One call get_aging_bucket(days_overdue); the result is kept in rec.
GetAgingBucket ==
    /\ rec = <<>>
    /\ rec' = <<[aging_bucket |-> get_aging_bucket(row.days_overdue)]>>
    /\ UNCHANGED row
    /\ UNCHANGED <<modelVars, scoreVars, schedVars, tableVars, featVars>>

InitAging ==
    /\ row \in [days_overdue : (0 - MaxAgingDays)..MaxAgingDays]
    /\ rec = <<>>
    /\ m = NewModel("gradient_boost", 42, <<>>)
    /\ file = AbsentFile
    /\ dirExists = FALSE
    /\ InitIdle
    /\ InitNoBatch
    /\ InitNoSchedule
    /\ InitNoTable
    /\ InitNoFeatures

NextAging == GetAgingBucket

SpecAging == InitAging /\ [][NextAging]_vars

-----------------------------------------------------------------------------
(* Claims on the fallback scorer (SpecScore)                               *)

FallbackCall ==
    /\ ScoredCall
    /\ lastErr = "none"
    /\ lastResult.kind = "fallback"

\* C21: _fallback_risk_scoring returns exactly the open invoices of the
\* input, one row each and no invoice of another status, each with an
\* integer risk_score in 0..100, ordered by risk_score descending.
C21_OpenInvoicesScoredAndSorted ==
    FallbackCall
        => /\ OneRowPerOpenInvoice(lastResult.rows)
           /\ \A i \in 1..Len(lastResult.rows) :
                 /\ lastResult.rows[i].status = "open"
                 /\ lastResult.rows[i].risk_score \in 0..100
           /\ \A i, j \in 1..Len(lastResult.rows) :
                 i < j => lastResult.rows[i].risk_score
                             >= lastResult.rows[j].risk_score

\* A batch of a paid invoice followed by an open one: only the open invoice
\* comes back.
C21_Witness ==
    /\ FallbackCall
    /\ Len(invoices_df) = 2
    /\ invoices_df[1].status = "paid"
    /\ invoices_df[2].status = "open"
    /\ Len(lastResult.rows) = 1
    /\ lastResult.rows[1].invoice_id = 2

\* Credit utilization of the customer of invoice i of the batch, in percent
\* as the fraction <<numerator, denominator>>.
UtilizationOf(i) ==
    LET c == customers_df[invoices_df[i].customer_id]
    IN IF c.credit_limit > 0
       THEN <<Min(100 * c.credit_limit,
                  100 * SumAmounts(invoices_df, invoices_df[i].customer_id)),
              c.credit_limit>>
       ELSE <<100, 1>>

OtherwiseIdentical(i, j) ==
    /\ invoices_df[i].invoice_amount = invoices_df[j].invoice_amount
    /\ customers_df[invoices_df[i].customer_id].payment_terms_days
         = customers_df[invoices_df[j].customer_id].payment_terms_days
    /\ UtilizationOf(i)[1] * UtilizationOf(j)[2]
         = UtilizationOf(j)[1] * UtilizationOf(i)[2]

\* C22: within one fallback batch, of two open invoices that agree on
\* amount, payment terms and credit utilization, the one with more days
\* overdue never has the lower risk_score, and one that is 60 days overdue
\* scores strictly higher than one that is not yet due.
C22_MonotoneInDaysOverdue ==
    FallbackCall
        => \A a, b \in 1..Len(lastResult.rows) :
              LET i == lastResult.rows[a].invoice_id
                  j == lastResult.rows[b].invoice_id
              IN OtherwiseIdentical(i, j)
                    => /\ invoices_df[i].due_days_ago
                             > invoices_df[j].due_days_ago
                          => lastResult.rows[a].risk_score
                                >= lastResult.rows[b].risk_score
                       /\ (invoices_df[i].due_days_ago = 60
                             /\ invoices_df[j].due_days_ago <= 0)
                          => lastResult.rows[a].risk_score
                                > lastResult.rows[b].risk_score

\* Two open invoices of one customer for the same amount, one 60 days
\* overdue and one due in 15 days, scored in one batch.
C22_Witness ==
    /\ FallbackCall
    /\ Len(lastResult.rows) = 2
    /\ OtherwiseIdentical(1, 2)
    /\ invoices_df[1].customer_id = invoices_df[2].customer_id
    /\ invoices_df[1].due_days_ago = -15
    /\ invoices_df[2].due_days_ago = 60
    /\ lastResult.rows[1].invoice_id = 2
    /\ lastResult.rows[1].risk_score > lastResult.rows[2].risk_score

\* The open invoices of the batch, in input order.
OpenInvoicesOnly == SelectSeq(invoices_df, IsOpen)

\* Position of invoice i among the open invoices of the batch.
OpenPosition(i) == Cardinality({k \in 1..i : IsOpen(invoices_df[k])})

\* C30: the fallback's credit utilization is the customer's open invoice
\* amounts over the credit limit, so the paid, void and cancelled invoices of
\* a batch do not change the risk_score of any open invoice: every returned
\* score is the score the open invoices get when scored on their own.
C30_AsClaimed ==
    FallbackCall
        => \A a \in 1..Len(lastResult.rows) :
              lastResult.rows[a].risk_score
                 = FallbackRiskScore(OpenInvoicesOnly, customers_df,
                                     OpenPosition(lastResult.rows[a].invoice_id))

-----------------------------------------------------------------------------
(* Claim on the aging buckets (SpecAging)                                  *)

AgingBuckets == {"current", "1-15", "16-30", "31-60", "61-90", "90+"}

ClaimedBucket(d) ==
    CASE d <= 0       -> "current"
      [] d \in 1..15  -> "1-15"
      [] d \in 16..30 -> "16-30"
      [] d \in 31..60 -> "31-60"
      [] d \in 61..90 -> "61-90"
      [] d >= 91      -> "90+"

\* C23: get_aging_bucket maps every integer days_overdue to exactly one of
\* six buckets: <= 0 current, 1..15 "1-15", 16..30 "16-30", 31..60 "31-60",
\* 61..90 "61-90" and 91 or more "90+".
C23_BucketOfDaysOverdue ==
    rec # <<>>
        => /\ rec[1].aging_bucket \in AgingBuckets
           /\ rec[1].aging_bucket = ClaimedBucket(row.days_overdue)

\* The call on the boundary value 90, the last day of the "61-90" bucket.
C23_Witness ==
    /\ rec # <<>>
    /\ row.days_overdue = 90
    /\ rec[1].aging_bucket = "61-90"

-----------------------------------------------------------------------------
(* Claims on the recommendation of one row, continued (SpecRec)            *)

\* C24: while prior_actions is below max_reminders, the engine recommends
\* escalate or final_notice only for an invoice more than 45 days overdue.
C24_AsClaimed ==
    (rec # <<>> /\ row.prior_actions < max_reminders
       /\ rec[1].recommended_action \in {"escalate", "final_notice"})
        => rec[1].days_overdue > 45

\* C25: message_tone is friendly when the invoice is high value and less
\* than 15 days overdue, or at most 7 days overdue with no prior action,
\* also when prior_actions is 2 or more; otherwise firm when prior_actions
\* is at least 2 or the invoice is at least 30 days overdue; otherwise
\* neutral.
C25_ToneOfRow ==
    rec # <<>>
        => LET d == rec[1].days_overdue
               friendly ==
                   \/ row.invoice_amount >= high_value_threshold /\ d < 15
                   \/ d <= 7 /\ row.prior_actions = 0
               firm == row.prior_actions >= 2 \/ d >= 30
           IN /\ rec[1].message_tone \in {"friendly", "firm", "neutral"}
              /\ rec[1].message_tone = "friendly" <=> friendly
              /\ rec[1].message_tone = "firm" <=> ~friendly /\ firm
              /\ rec[1].message_tone = "neutral" <=> ~friendly /\ ~firm

\* A high-value invoice 10 days overdue that was already chased twice or
\* more: the tone is friendly although the firm condition holds too.
C25_Witness ==
    /\ rec # <<>>
    /\ row.invoice_amount >= high_value_threshold
    /\ rec[1].days_overdue = 10
    /\ row.prior_actions >= 2
    /\ rec[1].message_tone = "friendly"

-----------------------------------------------------------------------------
(* Claims on generate_schedule, continued (SpecCadence)                    *)

\* A day on which the claim allows an attempt: not a Saturday or Sunday and
\* not the day of a holiday that was registered with add_holidays.
IsBusinessDay(day, holidays) ==
    /\ weekday(day) < 5
    /\ \A h \in holidays : h.day # day

EarliestBusinessDay(requested, holidays) ==
    CHOOSE day \in requested..(requested + 14) :
        /\ IsBusinessDay(day, holidays)
        /\ \A earlier \in requested..(day - 1) :
              ~IsBusinessDay(earlier, holidays)

\* C26: with business_days_only set, every scheduled_date that
\* generate_schedule returns is the earliest date at or after the requested
\* one (last contact plus the cadence offset) that is neither a Saturday or
\* Sunday nor a holiday registered through add_holidays.
C26_AsClaimed ==
    [][(sched_call.op = "none" /\ sched_call'.op = "generate_schedule"
          /\ scheduler.business_days_only)
        => \A k \in 1..Len(schedule_df') :
              schedule_df'[k].scheduled_date
                 = EarliestBusinessDay(
                      (IF sched_call'.last_contact_date = <<>> THEN clock
                       ELSE sched_call'.last_contact_date[1])
                        + schedule_df'[k].days_from_last_contact,
                      scheduler.holidays)]_vars

-----------------------------------------------------------------------------
(* Claim on cancel_future_actions (SpecSched)                              *)

\* C27: after cancel_future_actions(invoice_id) no attempt of that invoice
\* is pending, its completed attempts are still completed, the status of
\* every attempt of another invoice is what it was, and a second call with
\* the same invoice changes nothing further.
C27_CancelFrameAndIdempotence ==
    [][sched_call'.op = "cancel_future_actions"
        => /\ DOMAIN schedule_df' = DOMAIN schedule_df
           /\ \A i \in DOMAIN schedule_df :
                 /\ schedule_df'[i].invoice_id = sched_call'.invoice_id
                       => schedule_df'[i].status # "pending"
                 /\ schedule_df[i].status = "completed"
                       => schedule_df'[i].status = "completed"
                 /\ schedule_df[i].invoice_id # sched_call'.invoice_id
                       => schedule_df'[i].status = schedule_df[i].status
           /\ cancel_future_actions(schedule_df', sched_call'.invoice_id)
                 = schedule_df']_vars

\* cancel_future_actions has just cancelled a pending attempt of an invoice
\* that also has a completed attempt, while another invoice has a pending
\* attempt.
C27_Witness ==
    /\ sched_call.op = "cancel_future_actions"
    /\ \E i, j, k \in DOMAIN schedule_df :
          /\ schedule_df[i].invoice_id = sched_call.invoice_id
          /\ schedule_df[i].status = "cancelled"
          /\ schedule_df[i].cancelled_date # <<>>
          /\ schedule_df[j].invoice_id = sched_call.invoice_id
          /\ schedule_df[j].status = "completed"
          /\ schedule_df[k].invoice_id # sched_call.invoice_id
          /\ schedule_df[k].status = "pending"

\* C28: within one generate_schedule result the action types never
\* de-escalate: attempt 1 is friendly_reminder, and once an attempt is
\* escalate every later attempt of the schedule is escalate too.
C28_AsClaimed ==
    sched_call.op = "generate_schedule"
        => /\ schedule_df # <<>>
                 => schedule_df[1].action_type = "friendly_reminder"
           /\ \A i, j \in 1..Len(schedule_df) :
                 (i < j /\ schedule_df[i].action_type = "escalate")
                     => schedule_df[j].action_type = "escalate"

-----------------------------------------------------------------------------
(* Claim on the customer history features (SpecFeat)                       *)

\* The payments of the call that are dated strictly before as_of.
PaymentsBeforeAsOf ==
    SelectSeq(feat_in.payments.rows,
              LAMBDA p : p.payment_date[1] < feat_in.as_of)

\* C29: for an explicit as_of the per-customer history aggregates depend
\* only on the invoices issued strictly before as_of and the payments dated
\* strictly before as_of: the payments dated at or after as_of can be taken
\* out of the payments table without changing any of the four aggregates of
\* any row.
C29_AsClaimed ==
    (/\ feat_in.op = "engineer_features"
     /\ feat_in.payments.kind = "frame"
     /\ feat_out[1].err = "none"
     /\ PaymentsBeforeAsOf # <<>>)
        => LET without == FeatureFrame(feat_in.invoices, feat_in.customers,
                                       Frame(PaymentsBeforeAsOf),
                                       feat_in.as_of)
           IN \A i \in DOMAIN feat_out[1].rows :
                 \A column \in {"customer_invoice_count",
                                "customer_avg_days_late",
                                "customer_late_rate",
                                "customer_avg_payment_amount"} :
                    feat_out[1].rows[i][column] = without.rows[i][column]
====
